---- MODULE Spec2Model ----
(***************************************************************************)
(* Model of servicenow_mcp/tools/incident_tools.py: the five incident      *)
(* operations (create_incident, update_incident, add_comment,              *)
(* resolve_incident, list_incidents), the outbound HTTP calls each one     *)
(* issues and the envelope each one returns.                               *)
(*                                                                         *)
(* Python values are modelled as follows.                                  *)
(*   str            a TLA+ string (Len, \o, SubSeq act on it)              *)
(*   Optional[str]  None is the empty set, a value s is {s}                *)
(*   dict           a function whose DOMAIN is the set of keys present     *)
(*   list           a sequence                                             *)
(* An operation is split at its blocking HTTP calls: one action runs the   *)
(* code up to the next requests.get/put/post, the following action takes   *)
(* the remote system's answer (chosen by \E) and runs the code after it.   *)
(***************************************************************************)
EXTENDS Integers, Sequences, FiniteSets, TLC

VARIABLES
    pc,          \* "idle" | "lookup" | "primary" | "done": where the running operation is
    op,          \* name of the running operation, "none" when idle
    params,      \* the parameter object the operation was called with
    incident_id, \* local variable incident_id of update/comment/resolve
    calls,       \* outbound requests issued by the running operation, in order
    resps,       \* the answers received to them, in order
    outcome,     \* what the operation handed its caller: an envelope or a raised exception
    fn_in,       \* arguments of the pure helper under test (SpecDate)
    fn_out,      \* its result
    history      \* the invocations this process completed earlier, as an observer logs them

vars == <<pc, op, params, incident_id, calls, resps, outcome, fn_in, fn_out, history>>

-----------------------------------------------------------------------------
(* Bounds of the model *)

\* at most this many optional fields are set in one create/update call
MaxSetFields == 2
\* at most this many filters are set in one list_incidents call
MaxFilters == 2
\* at most this many entries in date_filters
MaxDateFilters == 1
\* at most this many records in the answer to a number lookup
MaxLookupResults == 1
\* at most this many records in the answer to list_incidents
MaxListResults == 2
\* at most this many completed invocations are kept in the observer's log
MaxHistory == 1

-----------------------------------------------------------------------------
(* Python values *)

None == {}
Some(s) == {s}
Val(o) == CHOOSE s \in o : TRUE

\* str(o) as an f-string renders it
PyStr(o) == IF o = None THEN "None" ELSE Val(o)

\* truth value of an Optional[str] in `if x:` : None and "" are both false
Truthy(o) == o # None /\ Val(o) # ""

\* dict.get(key) with the default None
Get(d, k) == IF k \in DOMAIN d THEN Some(d[k]) ELSE None

\* d[k] = v on a dict
Put(d, k, v) == [x \in DOMAIN d \cup {k} |-> IF x = k THEN v ELSE d[x]]

EmptyDict == <<>>

\* character i of a string (1-based)
CharAt(s, i) == SubSeq(s, i, i)

\* c in s, for a one-character c
CharIn(c, s) == \E i \in 1..Len(s) : CharAt(s, i) = c

\* t occurs in s as a substring
Contains(s, t) == \E i \in 0..(Len(s) - Len(t)) : SubSeq(s, i + 1, i + Len(t)) = t

\* str.replace(old, new) for a one-character old: every occurrence is replaced
RECURSIVE Replace(_, _, _)
Replace(s, old, new) ==
    IF s = "" THEN ""
    ELSE (IF Head(s) = old THEN new ELSE Head(s)) \o Replace(Tail(s), old, new)

\* str(n) for a natural number
RECURSIVE NatToStr(_)
NatToStr(n) ==
    IF n < 10 THEN CharAt("0123456789", n + 1)
    ELSE NatToStr(n \div 10) \o CharAt("0123456789", (n % 10) + 1)

\* str(n) for an integer
IntToStr(n) == IF n < 0 THEN "-" \o NatToStr(0 - n) ELSE NatToStr(n)

\* sep.join(parts)
RECURSIVE Join(_, _)
Join(sep, parts) ==
    IF parts = <<>> THEN ""
    ELSE IF Len(parts) = 1 THEN parts[1]
    ELSE parts[1] \o sep \o Join(sep, Tail(parts))

-----------------------------------------------------------------------------
(* Configuration and the remote system *)

\* config.api_url
ApiUrl == "https://example.service-now.com/api/now"

\* the exceptions requests raises for a failed call, with str(e)
ErrorKinds == {"ConnectionError", "Timeout", "HTTPError"}
ErrText(kind) ==
    CASE kind = "ConnectionError" -> "connection refused"
      [] kind = "Timeout" -> ""
      [] kind = "HTTPError" -> "404 Client Error"

\* faulty variant: only the non-2xx status error is caught
IsHTTPErrorOnly(kind) == kind = "HTTPError"

\* requests.RequestException is the base class of all of them
IsRequestException(kind) == kind \in {"ConnectionError", "Timeout", "HTTPError"}

Failure(kind) == [ok |-> FALSE, exc |-> kind, text |-> ErrText(kind)]
Success(body) == [ok |-> TRUE, result |-> body]
Failures == {Failure(k) : k \in ErrorKinds}

\* keys and numbers of the records the remote system holds
RemoteKeys == {"fedcba9876543210fedcba9876543210", "00000000000000000000000000000abc"}
RemoteRecord(k) == [sys_id |-> k, number |-> "INC0010001"]

\* sequences over S of length at most n
SeqUpTo(S, n) == UNION {[1..k -> S] : k \in 0..n}

\* answers to the number lookup: a failure, or a result list of records
LookupResponses ==
    Failures \cup {Success(l) : l \in SeqUpTo({RemoteRecord(k) : k \in RemoteKeys}, MaxLookupResults)}

\* answers to a write: a failure, or a result object (possibly without fields)
WriteResponses ==
    Failures \cup {Success(EmptyDict), Success(RemoteRecord("fedcba9876543210fedcba9876543210"))}

-----------------------------------------------------------------------------
(* Parameter objects *)

Key1 == "0123456789abcdef0123456789abcdef"

\* identifiers a caller may pass as incident_id
Identifiers ==
    { Key1,                                   \* 32 lowercase hex characters
      "abcdefabcdefabcdefabcdefabcdefab",     \* 32 lowercase hex letters
      SubSeq(Key1, 1, 31),                    \* 31 characters
      Key1 \o "0",                            \* 33 characters
      "0123456789ABCDEF0123456789abcdef",     \* uppercase hex
      "0123456789abcdeg0123456789abcdef",     \* 32 characters, one not hex
      "INC0010001",
      "" }

\* all ways to set at most n of the optional fields F (each to "" or to a text
\* naming the field), the rest left at None
OptionalFields(F, n) ==
    UNION { UNION { { [f \in F |-> IF f \in S THEN Some(IF f \in E THEN "" ELSE "new " \o f) ELSE None] }
                    : E \in SUBSET S }
            : S \in {T \in SUBSET F : Cardinality(T) <= n} }

CreateOptional ==
    {"description", "caller_id", "category", "subcategory", "priority",
     "impact", "urgency", "assigned_to", "assignment_group"}

CreateIncidentParams ==
    { [short_description |-> s, opt |-> o] :
        s \in {"", "printer down"}, o \in OptionalFields(CreateOptional, MaxSetFields) }

NoParams == [none |-> TRUE]
NoOutcome == [none |-> TRUE]
NoArgs == [none |-> TRUE]

-----------------------------------------------------------------------------
(* Bookkeeping shared by the actions *)

\* the operation issues a request and blocks on it
Issue(request, nextpc) ==
    /\ calls' = Append(calls, request)
    /\ pc' = nextpc

\* the operation returns an envelope to its caller
Return(envelope) ==
    /\ outcome' = [returned |-> envelope]
    /\ pc' = "done"

\* the operation lets an exception escape to its caller
Raise(exc) ==
    /\ outcome' = [raised |-> exc]
    /\ pc' = "done"

IncidentResponse(success, message, id, number) ==
    [success |-> success, message |-> message, incident_id |-> id, incident_number |-> number]

-----------------------------------------------------------------------------
(* create_incident *)

RECURSIVE AddIfSet(_, _, _)
\* the chain of `if params.f: data[f] = params.f` over the fields fs, in order
AddIfSet(data, fs, opt) ==
    IF fs = <<>> THEN data
    ELSE AddIfSet(IF Truthy(opt[Head(fs)]) THEN Put(data, Head(fs), Val(opt[Head(fs)])) ELSE data,
                  Tail(fs), opt)

create_incident_fields ==
    <<"description", "caller_id", "category", "subcategory", "priority",
      "impact", "urgency", "assigned_to", "assignment_group">>

create_incident_data(p) ==
    AddIfSet([short_description |-> p.short_description], create_incident_fields, p.opt)

create_incident_call(p) ==
    /\ pc = "idle"
    /\ op' = "create_incident"
    /\ params' = p
    /\ Issue([method |-> "POST", url |-> ApiUrl \o "/table/incident",
              json |-> create_incident_data(p)], "primary")
    /\ UNCHANGED <<incident_id, resps, outcome, fn_in, fn_out, history>>

create_incident_returns(r) ==
    /\ pc = "primary"
    /\ op = "create_incident"
    /\ resps' = Append(resps, r)
    /\ IF r.ok
       THEN Return(IncidentResponse(TRUE, "Incident created successfully",
                                    Get(r.result, "sys_id"), Get(r.result, "number")))
       ELSE IF IsRequestException(r.exc)
            THEN Return(IncidentResponse(FALSE, "Failed to create incident: " \o r.text, None, None))
            ELSE Raise(r.exc)
    /\ UNCHANGED <<op, params, incident_id, calls, fn_in, fn_out, history>>

-----------------------------------------------------------------------------
(* update_incident *)

UpdateOptional ==
    {"short_description", "description", "state", "category", "subcategory",
     "priority", "impact", "urgency", "assigned_to", "assignment_group",
     "work_notes", "close_notes", "close_code"}

\* every identifier with no field set, and a key and a ticket number with
\* every choice of fields
UpdateIncidentParams ==
    { [incident_id |-> i, opt |-> o] :
        i \in Identifiers, o \in OptionalFields(UpdateOptional, 0) }
    \cup
    { [incident_id |-> i, opt |-> o] :
        i \in {Key1, "INC0010001"}, o \in OptionalFields(UpdateOptional, MaxSetFields) }

\* len(incident_id) == 32 and all(c in "0123456789abcdef" for c in incident_id)
update_incident_is_sys_id(id) ==
    Len(id) = 32 /\ \A i \in 1..Len(id) : CharIn(CharAt(id, i), "0123456789abcdef")

update_incident_query_params(id) ==
    [sysparm_query |-> "number=" \o id, sysparm_limit |-> 1]

\* faulty variant: the message does not name the identifier
update_incident_not_found_message_without_id(id) == "Incident not found"

update_incident_not_found_message(id) == "Incident not found: " \o id

\* incident_id = result[0].get("sys_id")
update_incident_resolved_id(id, result) == Get(result[1], "sys_id")

update_incident_api_url(id) == ApiUrl \o "/table/incident/" \o PyStr(id)

update_incident_fields ==
    <<"short_description", "description", "state", "category", "subcategory",
      "priority", "impact", "urgency", "assigned_to", "assignment_group",
      "work_notes", "close_notes", "close_code">>

update_incident_data(p) == AddIfSet(EmptyDict, update_incident_fields, p.opt)

\* faulty variant: a ticket number an earlier invocation resolved is taken from
\* a memo of that invocation and the lookup is skipped
update_incident_call_memoizing(p) ==
    LET memo == { i \in 1..Len(history) :
                    /\ history[i].op \in {"update_incident", "add_comment", "resolve_incident"}
                    /\ history[i].params.incident_id = p.incident_id
                    /\ Len(history[i].resps) >= 1
                    /\ history[i].resps[1].ok
                    /\ history[i].resps[1].result # <<>> }
    IN  /\ pc = "idle"
        /\ op' = "update_incident"
        /\ params' = p
        /\ IF update_incident_is_sys_id(p.incident_id)
           THEN /\ incident_id' = Some(p.incident_id)
                /\ Issue([method |-> "PUT", url |-> update_incident_api_url(Some(p.incident_id)),
                          json |-> update_incident_data(p)], "primary")
           ELSE IF memo # {}
                THEN LET e == history[CHOOSE i \in memo : TRUE]
                     IN  /\ incident_id' = update_incident_resolved_id(p.incident_id, e.resps[1].result)
                         /\ Issue([method |-> "PUT", url |-> update_incident_api_url(incident_id'),
                                   json |-> update_incident_data(p)], "primary")
                ELSE /\ incident_id' = Some(p.incident_id)
                     /\ Issue([method |-> "GET", url |-> ApiUrl \o "/table/incident",
                               params |-> update_incident_query_params(p.incident_id)], "lookup")
        /\ UNCHANGED <<resps, outcome, fn_in, fn_out, history>>

update_incident_call(p) ==
    /\ pc = "idle"
    /\ op' = "update_incident"
    /\ params' = p
    /\ incident_id' = Some(p.incident_id)
    /\ IF update_incident_is_sys_id(p.incident_id)
       THEN Issue([method |-> "PUT", url |-> update_incident_api_url(Some(p.incident_id)),
                   json |-> update_incident_data(p)], "primary")
       ELSE Issue([method |-> "GET", url |-> ApiUrl \o "/table/incident",
                   params |-> update_incident_query_params(p.incident_id)], "lookup")
    /\ UNCHANGED <<resps, outcome, fn_in, fn_out, history>>

\* faulty variant: a failed lookup is logged and the write is issued all the same
update_incident_lookup_returns_then_writes(r) ==
    /\ pc = "lookup"
    /\ op = "update_incident"
    /\ resps' = Append(resps, r)
    /\ IF r.ok /\ r.result = <<>>
       THEN /\ Return(IncidentResponse(FALSE, update_incident_not_found_message(Val(incident_id)),
                                       None, None))
            /\ UNCHANGED <<incident_id, calls>>
       ELSE /\ incident_id' = IF r.ok THEN update_incident_resolved_id(Val(incident_id), r.result)
                                     ELSE incident_id
            /\ Issue([method |-> "PUT", url |-> update_incident_api_url(incident_id'),
                      json |-> update_incident_data(params)], "primary")
            /\ UNCHANGED outcome
    /\ UNCHANGED <<op, params, fn_in, fn_out, history>>

update_incident_lookup_returns(r) ==
    /\ pc = "lookup"
    /\ op = "update_incident"
    /\ resps' = Append(resps, r)
    /\ IF ~r.ok
       THEN /\ IF IsRequestException(r.exc)
               THEN Return(IncidentResponse(FALSE, "Failed to find incident: " \o r.text, None, None))
               ELSE Raise(r.exc)
            /\ UNCHANGED <<incident_id, calls>>
       ELSE IF r.result = <<>>
            THEN /\ Return(IncidentResponse(FALSE, update_incident_not_found_message(Val(incident_id)),
                                            None, None))
                 /\ UNCHANGED <<incident_id, calls>>
            ELSE /\ incident_id' = update_incident_resolved_id(Val(incident_id), r.result)
                 /\ Issue([method |-> "PUT", url |-> update_incident_api_url(incident_id'),
                           json |-> update_incident_data(params)], "primary")
                 /\ UNCHANGED outcome
    /\ UNCHANGED <<op, params, fn_in, fn_out, history>>

update_incident_returns(r) ==
    /\ pc = "primary"
    /\ op = "update_incident"
    /\ resps' = Append(resps, r)
    /\ IF r.ok
       THEN Return(IncidentResponse(TRUE, "Incident updated successfully",
                                    Get(r.result, "sys_id"), Get(r.result, "number")))
       ELSE IF IsRequestException(r.exc)
            THEN Return(IncidentResponse(FALSE, "Failed to update incident: " \o r.text, None, None))
            ELSE Raise(r.exc)
    /\ UNCHANGED <<op, params, incident_id, calls, fn_in, fn_out, history>>

-----------------------------------------------------------------------------
(* add_comment *)

AddCommentParams ==
    { [incident_id |-> i, comment |-> c, is_work_note |-> w] :
        i \in Identifiers, c \in {"", "rebooted the server"}, w \in BOOLEAN }

add_comment_is_sys_id(id) ==
    Len(id) = 32 /\ \A i \in 1..Len(id) : CharIn(CharAt(id, i), "0123456789abcdef")

add_comment_query_params(id) ==
    [sysparm_query |-> "number=" \o id, sysparm_limit |-> 1]

add_comment_not_found_message(id) == "Incident not found: " \o id

\* faulty variant: the identifier the caller passed is kept
add_comment_resolved_id_keeps_number(id, result) == Some(id)

add_comment_resolved_id(id, result) == Get(result[1], "sys_id")

add_comment_api_url(id) == ApiUrl \o "/table/incident/" \o PyStr(id)

\* faulty variant: the flag is ignored
add_comment_data_always_comments(p) == [comments |-> p.comment]

add_comment_data(p) ==
    IF p.is_work_note THEN [work_notes |-> p.comment] ELSE [comments |-> p.comment]

add_comment_call(p) ==
    /\ pc = "idle"
    /\ op' = "add_comment"
    /\ params' = p
    /\ incident_id' = Some(p.incident_id)
    /\ IF add_comment_is_sys_id(p.incident_id)
       THEN Issue([method |-> "PUT", url |-> add_comment_api_url(Some(p.incident_id)),
                   json |-> add_comment_data(p)], "primary")
       ELSE Issue([method |-> "GET", url |-> ApiUrl \o "/table/incident",
                   params |-> add_comment_query_params(p.incident_id)], "lookup")
    /\ UNCHANGED <<resps, outcome, fn_in, fn_out, history>>

add_comment_lookup_returns(r) ==
    /\ pc = "lookup"
    /\ op = "add_comment"
    /\ resps' = Append(resps, r)
    /\ IF ~r.ok
       THEN /\ IF IsRequestException(r.exc)
               THEN Return(IncidentResponse(FALSE, "Failed to find incident: " \o r.text, None, None))
               ELSE Raise(r.exc)
            /\ UNCHANGED <<incident_id, calls>>
       ELSE IF r.result = <<>>
            THEN /\ Return(IncidentResponse(FALSE, add_comment_not_found_message(Val(incident_id)),
                                            None, None))
                 /\ UNCHANGED <<incident_id, calls>>
            ELSE /\ incident_id' = add_comment_resolved_id(Val(incident_id), r.result)
                 /\ Issue([method |-> "PUT", url |-> add_comment_api_url(incident_id'),
                           json |-> add_comment_data(params)], "primary")
                 /\ UNCHANGED outcome
    /\ UNCHANGED <<op, params, fn_in, fn_out, history>>

add_comment_returns(r) ==
    /\ pc = "primary"
    /\ op = "add_comment"
    /\ resps' = Append(resps, r)
    /\ IF r.ok
       THEN Return(IncidentResponse(TRUE, "Comment added successfully",
                                    Get(r.result, "sys_id"), Get(r.result, "number")))
       ELSE IF IsRequestException(r.exc)
            THEN Return(IncidentResponse(FALSE, "Failed to add comment: " \o r.text, None, None))
            ELSE Raise(r.exc)
    /\ UNCHANGED <<op, params, incident_id, calls, fn_in, fn_out, history>>

-----------------------------------------------------------------------------
(* resolve_incident *)

ResolveIncidentParams ==
    { [incident_id |-> i, resolution_code |-> c, resolution_notes |-> n] :
        i \in Identifiers, c \in {"", "Solved"}, n \in {"", "Fixed"} }

\* faulty variant: uppercase hexadecimal digits are accepted too
resolve_incident_is_sys_id_any_case(id) ==
    Len(id) = 32 /\ \A i \in 1..Len(id) : CharIn(CharAt(id, i), "0123456789abcdefABCDEF")

resolve_incident_is_sys_id(id) ==
    Len(id) = 32 /\ \A i \in 1..Len(id) : CharIn(CharAt(id, i), "0123456789abcdef")

resolve_incident_query_params(id) ==
    [sysparm_query |-> "number=" \o id, sysparm_limit |-> 1]

resolve_incident_not_found_message(id) == "Incident not found: " \o id

resolve_incident_resolved_id(id, result) == Get(result[1], "sys_id")

resolve_incident_api_url(id) == ApiUrl \o "/table/incident/" \o PyStr(id)

\* faulty variant: code and notes change places
resolve_incident_data_swapped(p) ==
    [state |-> "6", close_code |-> p.resolution_notes,
     close_notes |-> p.resolution_code, resolved_at |-> "now"]

resolve_incident_data(p) ==
    [state |-> "6", close_code |-> p.resolution_code,
     close_notes |-> p.resolution_notes, resolved_at |-> "now"]

resolve_incident_call(p) ==
    /\ pc = "idle"
    /\ op' = "resolve_incident"
    /\ params' = p
    /\ incident_id' = Some(p.incident_id)
    /\ IF resolve_incident_is_sys_id(p.incident_id)
       THEN Issue([method |-> "PUT", url |-> resolve_incident_api_url(Some(p.incident_id)),
                   json |-> resolve_incident_data(p)], "primary")
       ELSE Issue([method |-> "GET", url |-> ApiUrl \o "/table/incident",
                   params |-> resolve_incident_query_params(p.incident_id)], "lookup")
    /\ UNCHANGED <<resps, outcome, fn_in, fn_out, history>>

resolve_incident_lookup_returns(r) ==
    /\ pc = "lookup"
    /\ op = "resolve_incident"
    /\ resps' = Append(resps, r)
    /\ IF ~r.ok
       THEN /\ IF IsRequestException(r.exc)
               THEN Return(IncidentResponse(FALSE, "Failed to find incident: " \o r.text, None, None))
               ELSE Raise(r.exc)
            /\ UNCHANGED <<incident_id, calls>>
       ELSE IF r.result = <<>>
            THEN /\ Return(IncidentResponse(FALSE, resolve_incident_not_found_message(Val(incident_id)),
                                            None, None))
                 /\ UNCHANGED <<incident_id, calls>>
            ELSE /\ incident_id' = resolve_incident_resolved_id(Val(incident_id), r.result)
                 /\ Issue([method |-> "PUT", url |-> resolve_incident_api_url(incident_id'),
                           json |-> resolve_incident_data(params)], "primary")
                 /\ UNCHANGED outcome
    /\ UNCHANGED <<op, params, fn_in, fn_out, history>>

resolve_incident_returns(r) ==
    /\ pc = "primary"
    /\ op = "resolve_incident"
    /\ resps' = Append(resps, r)
    /\ IF r.ok
       THEN Return(IncidentResponse(TRUE, "Incident resolved successfully",
                                    Get(r.result, "sys_id"), Get(r.result, "number")))
       ELSE IF IsRequestException(r.exc)
            THEN Return(IncidentResponse(FALSE, "Failed to resolve incident: " \o r.text, None, None))
            ELSE Raise(r.exc)
    /\ UNCHANGED <<op, params, incident_id, calls, fn_in, fn_out, history>>

-----------------------------------------------------------------------------
(* list_incidents *)

\* JSON values of a record of a list answer: a string, an object, null
JStr(s) == [str |-> s]
JDict(d) == [dict |-> d]
JNull == [null |-> TRUE]
IsDict(v) == DOMAIN v = {"dict"}

\* Optional[str] as the JSON value it is
JOpt(o) == IF o = None THEN JNull ELSE JStr(Val(o))

\* records the remote system answers list_incidents with: assigned_to as a
\* plain string, as a {value, display_value} pair, or not there
ListRecords ==
    { [sys_id |-> JStr("fedcba9876543210fedcba9876543210"), number |-> JStr("INC0010001"),
       assigned_to |-> JStr("John Doe")],
      [sys_id |-> JStr("00000000000000000000000000000abc"), number |-> JStr("INC0010002"),
       assigned_to |-> JDict([value |-> "u1", display_value |-> "Jane Roe"])],
      [sys_id |-> JStr("00000000000000000000000000000abd"), number |-> JStr("INC0010003")] }

ListResponses ==
    Failures \cup {Success(l) : l \in SeqUpTo(ListRecords, MaxListResults)}

\* values ListIncidentsParams accepts for a filter: priority and number are
\* restricted by their patterns, the others are free strings
FilterValues(f) ==
    CASE f = "priority" -> {"1", "2", "3", "4", "5", "P0", "P1", "P2", "P3", "P4", "PX"}
      [] f = "number" -> {"INC0010001"}
      [] OTHER -> {"", "my " \o f}

ListOptional == {"state", "assigned_to", "category", "priority", "number", "query"}

\* all ways to set the filters of S, the other filters left at None
FiltersSet(S) ==
    { [f \in ListOptional |-> IF f \in S THEN Some(h[f]) ELSE None] :
        h \in { g \in [S -> UNION {FilterValues(f) : f \in S}] : \A f \in S : g[f] \in FilterValues(f) } }

\* a date range {'from': ..., 'to': ...} with either key possibly missing
DateRanges ==
    { EmptyDict, [from |-> "2024-01-01"], [to |-> "2024-12-31"],
      [from |-> "2024-01-01", to |-> "2024-01-31 12:30:00"] }

DateFields == {"opened_at", "due_date", "sys_created_on"}

\* date_filters dicts as the sequence of their items, keys distinct
DateFilterDicts ==
    { d \in SeqUpTo(DateFields \X DateRanges, MaxDateFilters) :
        \A i, j \in 1..Len(d) : i # j => d[i][1] # d[j][1] }

ListIncidentsParams ==
    { [limit |-> 10, offset |-> 0, opt |-> o, date_filters |-> d] :
        o \in UNION { FiltersSet(S) : S \in {T \in SUBSET ListOptional : Cardinality(T) <= MaxFilters} },
        d \in {None} \cup {Some(x) : x \in DateFilterDicts} }

\* the parameter objects with at most MaxFilters filters set in all
BoundedListIncidentsParams ==
    { p \in ListIncidentsParams :
        Cardinality({f \in ListOptional : p.opt[f] # None})
          + (IF p.date_filters = None THEN 0 ELSE 1) <= MaxFilters }

\* str.isdigit()
IsDigit(s) == s # "" /\ \A i \in 1..Len(s) : CharIn(CharAt(s, i), "0123456789")

\* faulty variant: the table holds the digit of the token
priority_mapping_by_digit == [PX |-> -1, P0 |-> 0, P1 |-> 1, P2 |-> 2, P3 |-> 3, P4 |-> 4]

priority_mapping == [PX |-> -1, P0 |-> 1, P1 |-> 2, P2 |-> 3, P3 |-> 4, P4 |-> 5]

\* the priority lookup raises KeyError for a token that is no key of the table
priority_raises(p) ==
    /\ Truthy(p.opt["priority"])
    /\ ~IsDigit(Val(p.opt["priority"]))
    /\ Val(p.opt["priority"]) \notin DOMAIN priority_mapping

priority_clause(token) ==
    IF IsDigit(token) THEN "priority=" \o token
    ELSE "priority=" \o IntToStr(priority_mapping[token])

\* faulty variant: a bare date is put at midnight whichever bound it is
format_date_always_midnight(date_str, is_end_of_range) ==
    LET expanded == IF Len(date_str) = 10 THEN date_str \o " 00:00:00" ELSE date_str
    IN  Replace(expanded, " ", "','")

format_date(date_str, is_end_of_range) ==
    LET expanded == IF Len(date_str) = 10
                    THEN date_str \o " " \o (IF is_end_of_range THEN "23:59:59" ELSE "00:00:00")
                    ELSE date_str
    IN  Replace(expanded, " ", "','")

build_date_filter(field, date_from, date_to) ==
    IF ~Truthy(date_from) /\ ~Truthy(date_to) THEN ""
    ELSE IF Truthy(date_from) /\ Truthy(date_to)
         THEN field \o "BETWEENjavascript:gs.dateGenerate('" \o format_date(Val(date_from), FALSE)
                    \o "')@javascript:gs.dateGenerate('" \o format_date(Val(date_to), TRUE) \o "')"
    ELSE IF Truthy(date_from)
         THEN field \o ">=javascript:gs.dateGenerate('" \o format_date(Val(date_from), FALSE) \o "')"
         ELSE field \o "<=javascript:gs.dateGenerate('" \o format_date(Val(date_to), TRUE) \o "')"

RECURSIVE date_filter_clauses_prepending(_, _)
\* faulty variant: a date clause is put in front of the clauses collected so far
date_filter_clauses_prepending(filters, items) ==
    IF items = <<>> THEN filters
    ELSE LET date_filter == build_date_filter(Head(items)[1], Get(Head(items)[2], "from"),
                                              Get(Head(items)[2], "to"))
         IN  date_filter_clauses_prepending(
                 IF date_filter # "" THEN <<date_filter>> \o filters ELSE filters, Tail(items))

RECURSIVE date_filter_clauses(_, _)
\* the loop over params.date_filters.items(), appending to filters
date_filter_clauses(filters, items) ==
    IF items = <<>> THEN filters
    ELSE LET field_name == Head(items)[1]
             date_range == Head(items)[2]
             date_filter == build_date_filter(field_name, Get(date_range, "from"),
                                              Get(date_range, "to"))
         IN  date_filter_clauses(IF date_filter # "" THEN Append(filters, date_filter) ELSE filters,
                                 Tail(items))

\* the list `filters` when the request is made
list_incidents_filters(p) ==
    LET f0 == <<>>
        f1 == IF Truthy(p.opt["state"])
              THEN Append(f0, "state=" \o Val(p.opt["state"])) ELSE f0
        f2 == IF Truthy(p.opt["assigned_to"])
              THEN Append(f1, "assigned_to=" \o Val(p.opt["assigned_to"])) ELSE f1
        f3 == IF Truthy(p.opt["category"])
              THEN Append(f2, "category=" \o Val(p.opt["category"])) ELSE f2
        f4 == IF Truthy(p.opt["priority"])
              THEN Append(f3, priority_clause(Val(p.opt["priority"]))) ELSE f3
        f5 == IF Truthy(p.opt["number"])
              THEN Append(f4, "number=" \o Val(p.opt["number"])) ELSE f4
        f6 == IF Truthy(p.opt["query"])
              THEN Append(f5, "short_descriptionLIKE" \o Val(p.opt["query"])
                              \o "^ORdescriptionLIKE" \o Val(p.opt["query"]))
              ELSE f5
    IN  IF p.date_filters # None /\ Val(p.date_filters) # <<>>
        THEN date_filter_clauses(f6, Val(p.date_filters))
        ELSE f6

list_incidents_query_params(p) ==
    LET base == [sysparm_limit |-> p.limit, sysparm_offset |-> p.offset,
                 sysparm_display_value |-> "true",
                 sysparm_exclude_reference_link |-> "true",
                 sysparm_query_category |-> "reporting"]
        filters == list_incidents_filters(p)
    IN  IF filters # <<>> THEN Put(base, "sysparm_query", Join("^", filters)) ELSE base

list_incidents_call(p) ==
    /\ pc = "idle"
    /\ op' = "list_incidents"
    /\ params' = p
    /\ IF priority_raises(p)
       THEN Raise("KeyError") /\ UNCHANGED calls
       ELSE Issue([method |-> "GET", url |-> ApiUrl \o "/table/incident",
                   params |-> list_incidents_query_params(p)], "primary")
            /\ UNCHANGED outcome
    /\ UNCHANGED <<incident_id, resps, fn_in, fn_out, history>>

\* faulty variant: the pair is replaced by its value, not its display value
list_incidents_incident_by_value(incident_data) ==
    LET assigned_to == IF "assigned_to" \in DOMAIN incident_data
                       THEN incident_data["assigned_to"] ELSE JNull
    IN  IF IsDict(assigned_to)
        THEN Put(incident_data, "assigned_to", JOpt(Get(assigned_to.dict, "value")))
        ELSE incident_data

\* one record of the answer, as the loop body copies and normalises it
list_incidents_incident(incident_data) ==
    LET assigned_to == IF "assigned_to" \in DOMAIN incident_data
                       THEN incident_data["assigned_to"] ELSE JNull
    IN  IF IsDict(assigned_to)
        THEN Put(incident_data, "assigned_to", JOpt(Get(assigned_to.dict, "display_value")))
        ELSE incident_data

list_incidents_returns(r) ==
    /\ pc = "primary"
    /\ op = "list_incidents"
    /\ resps' = Append(resps, r)
    /\ IF r.ok
       THEN LET incidents == [i \in 1..Len(r.result) |-> list_incidents_incident(r.result[i])]
            IN  Return([success |-> TRUE,
                        message |-> "Found " \o NatToStr(Len(incidents)) \o " incidents",
                        incidents |-> incidents])
       ELSE IF IsRequestException(r.exc)
            THEN Return([success |-> FALSE,
                         message |-> "Failed to list incidents: " \o r.text,
                         incidents |-> <<>>])
            ELSE Raise(r.exc)
    /\ UNCHANGED <<op, params, incident_id, calls, fn_in, fn_out, history>>

-----------------------------------------------------------------------------
(* The caller takes the result; nothing of the invocation is kept *)

Finish ==
    /\ pc = "done"
    /\ pc' = "idle"
    /\ op' = "none"
    /\ params' = NoParams
    /\ incident_id' = None
    /\ calls' = <<>>
    /\ resps' = <<>>
    /\ outcome' = NoOutcome
    /\ UNCHANGED <<fn_in, fn_out, history>>

Init ==
    /\ pc = "idle"
    /\ op = "none"
    /\ params = NoParams
    /\ incident_id = None
    /\ calls = <<>>
    /\ resps = <<>>
    /\ outcome = NoOutcome
    /\ fn_in = NoArgs
    /\ fn_out = None
    /\ history = <<>>

Next ==
    \/ pc = "idle" /\ \E p \in CreateIncidentParams : create_incident_call(p)
    \/ pc = "primary" /\ \E r \in WriteResponses : create_incident_returns(r)
    \/ pc = "idle" /\ \E p \in UpdateIncidentParams : update_incident_call(p)
    \/ pc = "lookup" /\ \E r \in LookupResponses : update_incident_lookup_returns(r)
    \/ pc = "primary" /\ \E r \in WriteResponses : update_incident_returns(r)
    \/ pc = "idle" /\ \E p \in AddCommentParams : add_comment_call(p)
    \/ pc = "lookup" /\ \E r \in LookupResponses : add_comment_lookup_returns(r)
    \/ pc = "primary" /\ \E r \in WriteResponses : add_comment_returns(r)
    \/ pc = "idle" /\ \E p \in ResolveIncidentParams : resolve_incident_call(p)
    \/ pc = "lookup" /\ \E r \in LookupResponses : resolve_incident_lookup_returns(r)
    \/ pc = "primary" /\ \E r \in WriteResponses : resolve_incident_returns(r)
    \/ pc = "idle" /\ \E p \in BoundedListIncidentsParams : list_incidents_call(p)
    \/ pc = "primary" /\ \E r \in ListResponses : list_incidents_returns(r)
    \/ Finish

Spec == Init /\ [][Next]_vars

-----------------------------------------------------------------------------
(* The date range filter builder on its own: the arguments are drawn in the *)
(* initial state, the one action applies the builder to them               *)

DateOptions ==
    { None, Some(""), Some("2024-01-01"), Some("2024-12-31"),
      Some("2024-01-31 12:30:00"), Some("2024-01-31T12:30:00") }

DateArgs ==
    { [field |-> f, date_from |-> a, date_to |-> b] :
        f \in DateFields, a \in DateOptions, b \in DateOptions }

InitDate ==
    /\ pc = "idle"
    /\ op = "none"
    /\ params = NoParams
    /\ incident_id = None
    /\ calls = <<>>
    /\ resps = <<>>
    /\ outcome = NoOutcome
    /\ fn_in \in DateArgs
    /\ fn_out = None
    /\ history = <<>>

build_date_filter_applied ==
    /\ fn_in # NoArgs
    /\ fn_out = None
    /\ fn_out' = Some(build_date_filter(fn_in.field, fn_in.date_from, fn_in.date_to))
    /\ UNCHANGED <<pc, op, params, incident_id, calls, resps, outcome, fn_in, history>>

NextDate == build_date_filter_applied

SpecDate == InitDate /\ [][NextDate]_vars

-----------------------------------------------------------------------------
(* list_incidents called with priority tokens the pattern of                *)
(* ListIncidentsParams does not guard (a parameter object built without      *)
(* validation): the priority lookup on its own, no other filter set          *)

UnvalidatedPriorityTokens ==
    { "", "0", "1", "2", "3", "4", "5", "9", "10", "007",
      "P0", "P1", "P2", "P3", "P4", "PX",
      "P5", "p1", "PX1", "P", "-1", "1a", "High" }

UnvalidatedPriorityParams ==
    { [limit |-> 10, offset |-> 0,
       opt |-> [f \in ListOptional |-> IF f = "priority" THEN Some(t) ELSE None],
       date_filters |-> None] : t \in UnvalidatedPriorityTokens }

NextPriority ==
    \/ pc = "idle" /\ \E p \in UnvalidatedPriorityParams : list_incidents_call(p)
    \/ pc = "primary" /\ \E r \in ListResponses : list_incidents_returns(r)
    \/ Finish

SpecPriority == Init /\ [][NextPriority]_vars

-----------------------------------------------------------------------------
(* Several invocations in one process. The module keeps no module-level     *)
(* variable and every handler works on its arguments and locals only; an    *)
(* observer logs each completed invocation so that a later one can be       *)
(* compared with it. No action of the program reads the log.                *)

HistoryUpdateParams ==
    { [incident_id |-> i, opt |-> o] :
        i \in {Key1, "INC0010001"}, o \in OptionalFields(UpdateOptional, 0) }

HistoryAddCommentParams ==
    { [incident_id |-> "INC0010001", comment |-> "rebooted the server", is_work_note |-> FALSE] }

HistoryResolveParams ==
    { [incident_id |-> "INC0010001", resolution_code |-> "Solved", resolution_notes |-> "Fixed"] }

HistoryListParams ==
    { [limit |-> 10, offset |-> 0,
       opt |-> [f \in ListOptional |-> IF f = "number" /\ n THEN Some("INC0010001") ELSE None],
       date_filters |-> None] : n \in BOOLEAN }

\* the answers with at most one record: enough for the same number to resolve
\* to different keys, or the same listing to differ, from one invocation to the next
HistoryLookupResponses == { r \in LookupResponses : r.ok => Len(r.result) <= 1 }

HistoryListResponses == { r \in ListResponses : r.ok => Len(r.result) <= 1 }

\* what the observer logs of a completed invocation
Invocation ==
    [op |-> op, params |-> params, calls |-> calls, resps |-> resps, outcome |-> outcome]

\* the caller takes the result and the observer logs the invocation
FinishRecorded ==
    /\ pc = "done"
    /\ Len(history) < MaxHistory
    /\ history' = Append(history, Invocation)
    /\ pc' = "idle"
    /\ op' = "none"
    /\ params' = NoParams
    /\ incident_id' = None
    /\ calls' = <<>>
    /\ resps' = <<>>
    /\ outcome' = NoOutcome
    /\ UNCHANGED <<fn_in, fn_out>>

NextHistory ==
    \/ pc = "idle" /\ \E p \in HistoryUpdateParams : update_incident_call(p)
    \/ pc = "lookup" /\ \E r \in HistoryLookupResponses : update_incident_lookup_returns(r)
    \/ pc = "primary" /\ \E r \in WriteResponses : update_incident_returns(r)
    \/ pc = "idle" /\ \E p \in HistoryAddCommentParams : add_comment_call(p)
    \/ pc = "lookup" /\ \E r \in HistoryLookupResponses : add_comment_lookup_returns(r)
    \/ pc = "primary" /\ \E r \in WriteResponses : add_comment_returns(r)
    \/ pc = "idle" /\ \E p \in HistoryResolveParams : resolve_incident_call(p)
    \/ pc = "lookup" /\ \E r \in HistoryLookupResponses : resolve_incident_lookup_returns(r)
    \/ pc = "primary" /\ \E r \in WriteResponses : resolve_incident_returns(r)
    \/ pc = "idle" /\ \E p \in HistoryListParams : list_incidents_call(p)
    \/ pc = "primary" /\ \E r \in HistoryListResponses : list_incidents_returns(r)
    \/ FinishRecorded
    \/ Finish

SpecHistory == Init /\ [][NextHistory]_vars

-----------------------------------------------------------------------------
(* Vocabulary of the properties *)

\* the running operation resolves an identifier before it writes
Resolving == op \in {"update_incident", "add_comment", "resolve_incident"}

\* request i of the running operation is the number lookup
IsLookupCall(i) == Resolving /\ calls[i].method = "GET"

\* exactly 32 characters, each one of 0-9a-f
LowerHex32(id) ==
    /\ Len(id) = 32
    /\ \A i \in 1..Len(id) :
         CharAt(id, i) \in {"0", "1", "2", "3", "4", "5", "6", "7", "8", "9",
                            "a", "b", "c", "d", "e", "f"}

\* the lookup of the running operation was answered with an empty result list
LookupFoundNothing ==
    /\ Resolving
    /\ Len(resps) >= 1
    /\ calls[1].method = "GET"
    /\ resps[1].ok
    /\ resps[1].result = <<>>

IncidentUrl(key) == ApiUrl \o "/table/incident/" \o key

-----------------------------------------------------------------------------
(* C1: when the number lookup of update_incident, add_comment or           *)
(* resolve_incident succeeds with an empty result list, the operation has   *)
(* returned success=false with a message containing the identifier the      *)
(* caller passed, and it has issued no PUT.                                 *)
C1_NotFoundShortCircuits ==
    LookupFoundNothing =>
        /\ pc = "done"
        /\ "returned" \in DOMAIN outcome
        /\ outcome.returned.success = FALSE
        /\ Contains(outcome.returned.message, params.incident_id)
        /\ \A i \in 1..Len(calls) : calls[i].method # "PUT"

C1_Witness ==
    /\ LookupFoundNothing
    /\ op = "update_incident"
    /\ params.incident_id = "INC0010001"
    /\ pc = "done"

-----------------------------------------------------------------------------
(* C2: a PUT issued after a number lookup that returned records goes to the *)
(* URL of the first returned record's sys_id, which is not the URL of the   *)
(* identifier the caller passed.                                            *)
C2_WriteGoesToReturnedKey ==
    \A i \in 1..Len(calls) :
        (Resolving /\ i > 1 /\ calls[i].method = "PUT") =>
            /\ IsLookupCall(1)
            /\ resps[1].ok
            /\ resps[1].result # <<>>
            /\ calls[i].url = IncidentUrl(resps[1].result[1].sys_id)
            /\ calls[i].url # IncidentUrl(params.incident_id)

C2_Witness ==
    /\ op = "add_comment"
    /\ params.incident_id = "INC0010001"
    /\ Len(calls) = 2
    /\ calls[2].method = "PUT"
    /\ calls[2].url = IncidentUrl("00000000000000000000000000000abc")

-----------------------------------------------------------------------------
(* C3: in update_incident, add_comment and resolve_incident the identifier  *)
(* is used as the key (first request is the PUT to its URL, no lookup at    *)
(* all) exactly when it is 32 characters of 0-9a-f; otherwise the first     *)
(* request is the one lookup, with sysparm_query number=<identifier> and    *)
(* sysparm_limit 1.                                                         *)
C3_Classification ==
    (Resolving /\ Len(calls) >= 1) =>
        IF LowerHex32(params.incident_id)
        THEN /\ calls[1].method = "PUT"
             /\ calls[1].url = IncidentUrl(params.incident_id)
             /\ \A i \in 1..Len(calls) : ~IsLookupCall(i)
        ELSE /\ calls[1].method = "GET"
             /\ calls[1].params = [sysparm_query |-> "number=" \o params.incident_id,
                                   sysparm_limit |-> 1]
             /\ Cardinality({i \in 1..Len(calls) : IsLookupCall(i)}) = 1

C3_Witness ==
    /\ op = "resolve_incident"
    /\ params.incident_id = "0123456789ABCDEF0123456789abcdef"
    /\ Len(calls) = 2
    /\ calls[1].method = "GET"

-----------------------------------------------------------------------------
(* C4: an operation issues at most two requests: at most one lookup, which  *)
(* is answered before the at most one primary request is issued;            *)
(* create_incident and list_incidents issue exactly one. A failed request   *)
(* is the last one of its operation, which has then returned.               *)
C4_CallDiscipline ==
    /\ Len(calls) <= 2
    /\ \A i, j \in 1..Len(calls) :
         /\ (IsLookupCall(i) /\ IsLookupCall(j)) => i = j
         /\ (~IsLookupCall(i) /\ ~IsLookupCall(j)) => i = j
         /\ (IsLookupCall(i) /\ ~IsLookupCall(j)) => (i < j /\ Len(resps) >= i)
    /\ Len(calls) - 1 <= Len(resps) /\ Len(resps) <= Len(calls)
    /\ (op \in {"create_incident", "list_incidents"}) => Len(calls) = 1
    /\ (pc = "done") => (Len(calls) >= 1 /\ Len(resps) = Len(calls))
    /\ \A i \in 1..Len(resps) : ~resps[i].ok => (i = Len(calls) /\ pc = "done")

C4_Witness ==
    /\ op = "update_incident"
    /\ pc = "done"
    /\ Len(calls) = 1
    /\ calls[1].method = "GET"
    /\ resps[1] = Failure("Timeout")

-----------------------------------------------------------------------------
(* C5: when the lookup or the primary request failed (connection failure,   *)
(* timeout, non-2xx status) or the lookup found nothing, the operation has  *)
(* returned an envelope, not raised, with success=false and a non-empty     *)
(* message; for list_incidents the incidents list is empty.                 *)
C5_FailuresBecomeEnvelopes ==
    (pc = "done" /\ (LookupFoundNothing \/ \E i \in 1..Len(resps) : ~resps[i].ok)) =>
        /\ "returned" \in DOMAIN outcome
        /\ outcome.returned.success = FALSE
        /\ outcome.returned.message # ""
        /\ (op = "list_incidents") => outcome.returned.incidents = <<>>

C5_Witness ==
    /\ op = "list_incidents"
    /\ pc = "done"
    /\ resps = <<Failure("Timeout")>>
    /\ "returned" \in DOMAIN outcome
    /\ outcome.returned.success = FALSE

-----------------------------------------------------------------------------
(* C6: the payload of every write of create_incident and update_incident    *)
(* holds each optional field the caller set, with the caller's value, and   *)
(* no field the caller left unset; create_incident's payload holds          *)
(* short_description.                                                       *)
C6_PayloadIsTheFieldsSet ==
    \A i \in 1..Len(calls) :
        (op \in {"create_incident", "update_incident"} /\ calls[i].method \in {"POST", "PUT"}) =>
            /\ \A f \in DOMAIN params.opt :
                 IF params.opt[f] # None
                 THEN f \in DOMAIN calls[i].json /\ calls[i].json[f] = Val(params.opt[f])
                 ELSE f \notin DOMAIN calls[i].json
            /\ (op = "create_incident") =>
                 /\ "short_description" \in DOMAIN calls[i].json
                 /\ calls[i].json["short_description"] = params.short_description

-----------------------------------------------------------------------------
(* C7: the payload of every PUT of resolve_incident is state "6",           *)
(* close_code the caller's resolution_code, close_notes the caller's        *)
(* resolution_notes and resolved_at "now", whatever the identifier's shape  *)
(* and whatever the lookup returned.                                        *)
C7_ResolvePayload ==
    \A i \in 1..Len(calls) :
        (op = "resolve_incident" /\ calls[i].method = "PUT") =>
            /\ DOMAIN calls[i].json = {"state", "close_code", "close_notes", "resolved_at"}
            /\ calls[i].json["state"] = "6"
            /\ calls[i].json["close_code"] = params.resolution_code
            /\ calls[i].json["close_notes"] = params.resolution_notes
            /\ calls[i].json["resolved_at"] = "now"

C7_Witness ==
    /\ op = "resolve_incident"
    /\ params.incident_id = "INC0010001"
    /\ params.resolution_code = "Solved"
    /\ params.resolution_notes = "Fixed"
    /\ Len(calls) = 2
    /\ calls[2].method = "PUT"

-----------------------------------------------------------------------------
(* C8: the payload of every PUT of add_comment has exactly one field, which *)
(* holds the comment: work_notes when is_work_note is true, comments when   *)
(* it is false.                                                             *)
C8_CommentField ==
    \A i \in 1..Len(calls) :
        (op = "add_comment" /\ calls[i].method = "PUT") =>
            IF params.is_work_note
            THEN calls[i].json = [work_notes |-> params.comment]
            ELSE calls[i].json = [comments |-> params.comment]

C8_Witness ==
    /\ op = "add_comment"
    /\ params.is_work_note
    /\ params.comment = "rebooted the server"
    /\ Len(calls) >= 1
    /\ calls[Len(calls)].method = "PUT"

-----------------------------------------------------------------------------
\* a filter or a bound is present when it is given a non-empty value
Present(o) == o # None /\ o # Some("")

ExpectedPriority(token) ==
    CASE token = "PX" -> "-1"
      [] token = "P0" -> "1"
      [] token = "P1" -> "2"
      [] token = "P2" -> "3"
      [] token = "P3" -> "4"
      [] token = "P4" -> "5"
      [] OTHER -> token

ExpectedClause(f, v) ==
    CASE f = "priority" -> "priority=" \o ExpectedPriority(v)
      [] f = "query" -> "short_descriptionLIKE" \o v \o "^ORdescriptionLIKE" \o v
      [] OTHER -> f \o "=" \o v

ExpectedScalarClauses(p) ==
    LET order == <<"state", "assigned_to", "category", "priority", "number", "query">>
        IsPresent(f) == Present(p.opt[f])
        present == SelectSeq(order, IsPresent)
    IN  [i \in 1..Len(present) |-> ExpectedClause(present[i], Val(p.opt[present[i]]))]

ExpectedDateClauses(p) ==
    LET items == IF p.date_filters = None THEN <<>> ELSE Val(p.date_filters)
        rendered == [i \in 1..Len(items) |->
                        build_date_filter(items[i][1], Get(items[i][2], "from"),
                                          Get(items[i][2], "to"))]
        NonEmpty(c) == c # ""
    IN  SelectSeq(rendered, NonEmpty)

ExpectedClauses(p) == ExpectedScalarClauses(p) \o ExpectedDateClauses(p)

-----------------------------------------------------------------------------
HasTime(d) == Len(d) > 10

\* the two arguments of gs.dateGenerate: the date and the time of day
Anchor(d, end_of_day) ==
    IF HasTime(d)
    THEN IF CharAt(d, 11) = " "
         THEN SubSeq(d, 1, 10) \o "','" \o SubSeq(d, 12, Len(d))
         ELSE d
    ELSE d \o "','" \o (IF end_of_day THEN "23:59:59" ELSE "00:00:00")

DateGenerate(d, end_of_day) == "javascript:gs.dateGenerate('" \o Anchor(d, end_of_day) \o "')"

(* C10: build_date_filter returns "" when neither bound is given, a >=      *)
(* predicate on the lower bound when only from is given, a <= predicate on  *)
(* the upper bound when only to is given, and one BETWEEN predicate, lower  *)
(* bound first, when both are given. A bare 10-character date becomes       *)
(* 00:00:00 of that day as a lower bound and 23:59:59 as an upper bound; a  *)
(* value with a time component gets no time added. A bound is given when it *)
(* is a non-empty string.                                                   *)
C10_DateRange ==
    (fn_in # NoArgs /\ fn_out # None) =>
        LET lo == fn_in.date_from
            hi == fn_in.date_to
            out == Val(fn_out)
        IN  /\ (~Present(lo) /\ ~Present(hi)) => out = ""
            /\ (Present(lo) /\ ~Present(hi)) =>
                 out = fn_in.field \o ">=" \o DateGenerate(Val(lo), FALSE)
            /\ (~Present(lo) /\ Present(hi)) =>
                 out = fn_in.field \o "<=" \o DateGenerate(Val(hi), TRUE)
            /\ (Present(lo) /\ Present(hi)) =>
                 out = fn_in.field \o "BETWEEN" \o DateGenerate(Val(lo), FALSE)
                         \o "@" \o DateGenerate(Val(hi), TRUE)

C10_Witness ==
    /\ fn_in # NoArgs
    /\ fn_in.date_from = Some("2024-01-01")
    /\ fn_in.date_to = Some("2024-01-31 12:30:00")
    /\ fn_out = Some(fn_in.field \o "BETWEENjavascript:gs.dateGenerate('2024-01-01','00:00:00')"
                       \o "@javascript:gs.dateGenerate('2024-01-31','12:30:00')")

-----------------------------------------------------------------------------
\* the token is made of the digits 0-9 only, and of at least one
AllDigits(t) ==
    /\ Len(t) > 0
    /\ \A i \in 1..Len(t) : CharAt(t, i) \in {"0", "1", "2", "3", "4", "5", "6", "7", "8", "9"}

PriorityTable == {"PX", "P0", "P1", "P2", "P3", "P4"}

\* the token list_incidents was called with
PriorityToken == Val(params.opt["priority"])

\* list_incidents sent exactly this clause as its filter
SentPriorityClause(clause) ==
    /\ Len(calls) = 1
    /\ "sysparm_query" \in DOMAIN calls[1].params
    /\ calls[1].params["sysparm_query"] = clause

\* list_incidents ended at once with exception exc and issued no request
FailedWith(exc) ==
    /\ pc = "done"
    /\ calls = <<>>
    /\ outcome = [raised |-> exc]

(* C11 as stated: an all-digit token is used unchanged, PX, P0..P4 map to   *)
(* -1, 1..5, and every token that is neither all digits nor a key of the    *)
(* table makes list_incidents fail with InvalidPriorityToken.               *)
C11_AsStated ==
    (op = "list_incidents" /\ params.opt["priority"] # None) =>
        IF AllDigits(PriorityToken)
        THEN SentPriorityClause("priority=" \o PriorityToken)
        ELSE IF PriorityToken \in PriorityTable
             THEN SentPriorityClause("priority=" \o ExpectedPriority(PriorityToken))
             ELSE FailedWith("InvalidPriorityToken")

(* C11 amended: an all-digit token is used unchanged, PX, P0..P4 map to     *)
(* -1, 1..5, and every non-empty token that is neither all digits nor a key *)
(* of the table makes list_incidents fail with KeyError, raised to the      *)
(* caller before any request is issued; the empty token is no filter at     *)
(* all. No clause ever carries an unmapped token.                           *)
C11_PriorityMapping ==
    (op = "list_incidents" /\ params.opt["priority"] # None) =>
        IF PriorityToken = ""
        THEN Len(calls) = 1 /\ "sysparm_query" \notin DOMAIN calls[1].params
        ELSE IF AllDigits(PriorityToken)
             THEN SentPriorityClause("priority=" \o PriorityToken)
             ELSE IF PriorityToken \in PriorityTable
                  THEN SentPriorityClause("priority=" \o ExpectedPriority(PriorityToken))
                  ELSE FailedWith("KeyError")

C11_Witness ==
    /\ op = "list_incidents"
    /\ params.opt["priority"] = Some("P5")
    /\ FailedWith("KeyError")

-----------------------------------------------------------------------------
\* the JSON value is a {value, display_value} pair
IsPair(v) == DOMAIN v = {"dict"} /\ DOMAIN v.dict = {"value", "display_value"}

\* the record list_incidents must hand back for remote record rec
ExpectedIncident(rec) ==
    [f \in DOMAIN rec |->
        IF f = "assigned_to" /\ IsPair(rec[f])
        THEN [str |-> rec[f].dict["display_value"]]
        ELSE rec[f]]

(* C12: when the read call of list_incidents succeeds with N records, the   *)
(* envelope has success=true, the message "Found N incidents" and N         *)
(* incidents in the order of the answer, each the remote record field for   *)
(* field, except that an assigned_to arriving as a {value, display_value}   *)
(* pair is its display value.                                               *)
C12_ListEnvelope ==
    (op = "list_incidents" /\ pc = "done" /\ Len(resps) = 1 /\ resps[1].ok) =>
        /\ "returned" \in DOMAIN outcome
        /\ outcome.returned.success = TRUE
        /\ outcome.returned.message
             = "Found " \o NatToStr(Len(resps[1].result)) \o " incidents"
        /\ Len(outcome.returned.incidents) = Len(resps[1].result)
        /\ \A i \in 1..Len(resps[1].result) :
             outcome.returned.incidents[i] = ExpectedIncident(resps[1].result[i])

C12_Witness ==
    /\ op = "list_incidents"
    /\ pc = "done"
    /\ Len(resps) = 1
    /\ resps[1].ok
    /\ Len(resps[1].result) = 2
    /\ "assigned_to" \in DOMAIN resps[1].result[1]
    /\ IsPair(resps[1].result[1]["assigned_to"])
    /\ "assigned_to" \notin DOMAIN resps[1].result[2]
    /\ outcome.returned.message = "Found 2 incidents"
    /\ outcome.returned.incidents[1]["assigned_to"] = [str |-> "Jane Roe"]
    /\ outcome.returned.incidents[2] = resps[1].result[2]

-----------------------------------------------------------------------------
\* the running invocation and the logged invocation e issued the same first n
\* requests and received the same first n answers
SameExchange(e, n) ==
    /\ Len(calls) >= n
    /\ Len(e.calls) >= n
    /\ Len(resps) >= n
    /\ Len(e.resps) >= n
    /\ \A j \in 1..n : calls[j] = e.calls[j] /\ resps[j] = e.resps[j]

\* the logged invocation e was update/comment/resolve on identifier id
ResolvedBefore(e, id) ==
    /\ e.op \in {"update_incident", "add_comment", "resolve_incident"}
    /\ e.params.incident_id = id

(* C13: operations keep no state between calls. Whatever the process has     *)
(* completed before, the running operation's requests and envelope are a    *)
(* function of its parameters and of the answers it received: against any    *)
(* earlier invocation of the same operation with the same parameters, its    *)
(* next request is the same as long as the exchange so far was the same,     *)
(* and with the same answers throughout it makes the same number of          *)
(* requests and hands back the same envelope (list_incidents twice against   *)
(* an unchanged store included). A ticket number an earlier update, comment  *)
(* or resolve already resolved is looked up again by the running one.        *)
C13_NoStateBetweenCalls ==
    \A i \in 1..Len(history) :
        LET e == history[i]
        IN  /\ (op = e.op /\ params = e.params) =>
                  /\ \A k \in 1..Len(calls) :
                       SameExchange(e, k - 1) => (k <= Len(e.calls) /\ calls[k] = e.calls[k])
                  /\ (pc = "done" /\ SameExchange(e, Len(calls))) =>
                       (Len(e.calls) = Len(calls) /\ outcome = e.outcome)
            /\ (Resolving /\ ResolvedBefore(e, params.incident_id)
                   /\ ~LowerHex32(params.incident_id)) =>
                  /\ Len(calls) >= 1
                  /\ IsLookupCall(1)
                  /\ calls[1].params.sysparm_query = "number=" \o params.incident_id

C13_Witness ==
    /\ Len(history) = 1
    /\ op = "update_incident"
    /\ pc = "done"
    /\ params = history[1].params
    /\ history[1].op = "update_incident"
    /\ params.incident_id = "INC0010001"
    /\ Len(history[1].calls) = 2
    /\ Len(calls) = 2
    /\ IsLookupCall(1)
    /\ resps = history[1].resps
    /\ resps[2].ok
    /\ outcome = history[1].outcome
    /\ outcome.returned.success = TRUE

====
